---- MODULE Spec2Model ----
(***************************************************************************)
(* A model of wyscoutapi: WyscoutAPILoader (URL construction, the params   *)
(* loop, the rate-limited GET, response classification) and the APIClient  *)
(* facade that maps its methods onto Loader.get_route_json.                *)
(*                                                                         *)
(* Python values are tagged records [t |-> type, v |-> payload] so that    *)
(* values of different Python types can be told apart and compared. A      *)
(* Python dict (keyword arguments, a JSON object) is the sequence of its   *)
(* <<key, value>> items in insertion order.                                *)
(***************************************************************************)
EXTENDS Integers, Sequences, FiniteSets, TLC

VARIABLES
    version,   \* WyscoutAPILoader.version, fixed at construction
    pc,        \* where the one call in progress stands
    call,      \* the entry point invoked: method and arguments
    lreq,      \* the arguments of Loader.get_route_json: route and params
    kwargs,    \* the params dict after the loop of lines 79-81
    sent,      \* what was handed to requests.get: url and params
    resp,      \* the response: whether it decodes as JSON, and the body
    outcome,   \* what get_route_json did: returned a value or raised
    result,    \* what the entry point did: returned a value or raised
    gets       \* HTTP GETs issued by the call in progress

vars == <<version, pc, call, lreq, kwargs, sent, resp, outcome, result, gets>>

----------------------------------------------------------------------------
(* Python / JSON values *)

None  == [t |-> "none", v |-> 0]
S(x)  == [t |-> "str",  v |-> x]
I(n)  == [t |-> "int",  v |-> n]
B(b)  == [t |-> "bool", v |-> b]
L(xs) == [t |-> "list", v |-> xs]
D(f)  == [t |-> "dict", v |-> f]

EmptyDict == D(<<>>)

\* The keys of a dict
Keys(f) == {f[i][1] : i \in DOMAIN f}

\* f[k] on a dict that has the key
Item(f, k) == f[CHOOSE i \in DOMAIN f : f[i][1] = k][2]

----------------------------------------------------------------------------
(* Records of the state *)

\* What a call did: returned x, raised e(x), or nothing yet
Return(x)    == [kind |-> "return", exc |-> "", val |-> x]
Raise(e, x)  == [kind |-> "raise",  exc |-> e,  val |-> x]
Pending      == [kind |-> "none",   exc |-> "", val |-> None]

\* get_route_json(*route, **params)
LoaderCall(route, params) == [route |-> route, params |-> params]

\* A method of APIClient called with arguments
ClientMethodCall(method, args) == [method |-> method, args |-> args]

\* requests.get(url, headers=self.headers, params=params)
HttpGet(url, issued, params) == [params |-> params, url |-> url, issued |-> issued]

\* A response whose body decodes to `body`, or does not decode
Response(json, body) == [json |-> json, body |-> body]

NoCall == ClientMethodCall("", <<>>)
NoRequest == LoaderCall(<<>>, <<>>)
NoSent == HttpGet("", FALSE, <<>>)
NoResponse == Response(FALSE, None)

----------------------------------------------------------------------------
(* Python built-ins *)

\* Python truthiness, as `if error:` and `filters or {}` evaluate it
Truthy(x) ==
    CASE x.t = "none" -> FALSE
      [] x.t = "str"  -> x.v # ""
      [] x.t = "int"  -> x.v # 0
      [] x.t = "bool" -> x.v
      [] x.t = "list" -> x.v # <<>>
      [] x.t = "dict" -> x.v # <<>>

\* str(r), as _url applies it to a route segment
Str(r) ==
    CASE r.t = "str"  -> r.v
      [] r.t = "int"  -> ToString(r.v)
      [] r.t = "bool" -> IF r.v THEN "True" ELSE "False"
      [] r.t = "none" -> "None"

\* json.dumps(val) for the scalar values a query parameter takes
JsonDumps(val) ==
    CASE val.t = "bool" -> S(IF val.v THEN "true" ELSE "false")
      [] val.t = "none" -> S("null")
      [] val.t = "int"  -> S(ToString(val.v))
      [] val.t = "str"  -> S("\"" \o val.v \o "\"")
      [] OTHER          -> S("{}")

\* isinstance(x, bool)
IsInstanceBool(x) == x.t = "bool"

\* isinstance(x, str)
IsInstanceStr(x) == x.t = "str"

\* The exception classes of lines 10-27, all subclasses of WyscoutAPIError
WyscoutAPIError ==
    {"AuthenticationError", "BadRequestError", "TooManyRequestsError", "UnknownError"}

----------------------------------------------------------------------------
(* WyscoutAPILoader *)

BASE_URL == "https://apirest.wyscout.com"

RECURSIVE JoinSlash(_)
\* '/'.join(str(r) for r in route)
JoinSlash(route) ==
    IF route = <<>> THEN ""
    ELSE IF Len(route) = 1 THEN Str(route[1])
    ELSE Str(route[1]) \o "/" \o JoinSlash(Tail(route))

\* A plausible slip: the segments joined in reverse order
UrlReversed(ver, route) ==
    BASE_URL \o "/" \o ver \o "/"
    \o JoinSlash([i \in 1..Len(route) |-> route[Len(route) + 1 - i]])

\* WyscoutAPILoader._url
_url(ver, route) == BASE_URL \o "/" \o ver \o "/" \o JoinSlash(route)

\* content.get('error', None)
GetError(content) ==
    IF "error" \in Keys(content.v) THEN Item(content.v, "error") ELSE None

\* error['code'] == n
CodeIs(error, n) ==
    Item(error.v, "code").t = "int" /\ Item(error.v, "code").v = n

\* A plausible slip: `if error is not None` in place of `if error`
ParseErrorNotNone(content) ==
    IF content.t # "dict" THEN Return(content)
    ELSE LET error == GetError(content)
         IN  IF error # None
             THEN IF IsInstanceStr(error) THEN Raise("UnknownError", error)
                  ELSE Raise("UnknownError", None)
             ELSE Return(content)

\* A plausible slip: the 400 and 401 branches exchanged
ParseErrorSwapped(content) ==
    IF content.t # "dict" THEN Return(content)
    ELSE LET error == GetError(content)
         IN  IF Truthy(error)
             THEN IF IsInstanceStr(error) THEN Raise("UnknownError", error)
                  ELSE IF error.t # "dict" \/ {"code", "message"} \ Keys(error.v) # {}
                       THEN Raise("TypeError", None)
                  ELSE IF CodeIs(error, 400)
                       THEN Raise("AuthenticationError", Item(error.v, "message"))
                  ELSE IF CodeIs(error, 401)
                       THEN Raise("BadRequestError", Item(error.v, "message"))
                  ELSE IF CodeIs(error, 429)
                       THEN Raise("TooManyRequestsError", Item(error.v, "message"))
                  ELSE Raise("UnknownError", Item(error.v, "message"))
             ELSE Return(content)

\* WyscoutAPILoader._parse_response, applied to the decoded body.
\* content.get exists on a mapping only: on anything else the AttributeError
\* handler returns the content. error['code'] raises TypeError on a value
\* that cannot be subscripted by a string and KeyError on a mapping without
\* the key; every branch then reads error['message'], a KeyError without it.
ParseDecoded(content) ==
    IF content.t # "dict" THEN Return(content)
    ELSE LET error == GetError(content)
         IN  IF Truthy(error)
             THEN IF IsInstanceStr(error) THEN Raise("UnknownError", error)
                  ELSE IF error.t # "dict" THEN Raise("TypeError", None)
                  ELSE IF "code" \notin Keys(error.v) THEN Raise("KeyError", S("code"))
                  ELSE IF "message" \notin Keys(error.v)
                       THEN Raise("KeyError", S("message"))
                  ELSE IF CodeIs(error, 401)
                       THEN Raise("AuthenticationError", Item(error.v, "message"))
                  ELSE IF CodeIs(error, 400)
                       THEN Raise("BadRequestError", Item(error.v, "message"))
                  ELSE IF CodeIs(error, 429)
                       THEN Raise("TooManyRequestsError", Item(error.v, "message"))
                  ELSE Raise("UnknownError", Item(error.v, "message"))
             ELSE Return(content)

\* WyscoutAPILoader._parse_response: response.json() raises on a body that
\* is not JSON, and the decoded body is classified otherwise
_parse_response(response) ==
    IF ~response.json THEN Raise("JSONDecodeError", None)
    ELSE ParseDecoded(response.body)

\* A filter that drops the entries with value None before the request
ParamsNoneDropped(params) == SelectSeq(params, LAMBDA item : item[2] # None)

\* The loop of get_route_json over params.items(): the test is applied to
\* the parameter's name, which is a str
PrepareParams(params) ==
    [i \in DOMAIN params |->
        <<params[i][1],
          IF IsInstanceBool(S(params[i][1])) THEN JsonDumps(params[i][2])
          ELSE params[i][2]>>]

----------------------------------------------------------------------------
(* APIClient *)

\* The value a caller passes for each argument, distinct per argument name
ArgVal(n) ==
    CASE n = "coach_id"       -> I(11)
      [] n = "competition_id" -> I(22)
      [] n = "area_id"        -> S("ITA")
      [] n = "match_id"       -> I(33)
      [] n = "player_id"      -> I(44)
      [] n = "referee_id"     -> I(55)
      [] n = "round_id"       -> I(66)
      [] n = "season_id"      -> I(77)
      [] n = "team_id"        -> I(123)
      [] n = "match_day"      -> I(5)
      [] n = "query"          -> S("totti")
      [] n = "object_type"    -> S("player")
      [] n = "timestamp"      -> S("2018-02-09 18:00:00")
      [] n = "details"        -> S("full")
      [] n = "fetch"          -> S("team")
      [] n = "filters"        -> S("flt")

\* The bindings of one argument: the name with each value it may take
Bind(n, values) == {<< <<n, x>> >> : x \in values}

\* The bindings of the arguments of `first` followed by those of `rest`
Cross(first, rest) == {f \o r : f \in first, r \in rest}

Req(n)  == Bind(n, {ArgVal(n)})          \* a required argument
Opt(n)  == Bind(n, {None, ArgVal(n)})    \* an argument defaulting to None
Flag(n) == Bind(n, {B(FALSE), B(TRUE)})  \* an argument defaulting to False

\* object_type of updated_objects
ObjectTypes == {S("players"), S("teams")}

\* details=None, fetch=None
DetailsFetch == Cross(Opt("details"), Opt("fetch"))

\* season_id=None, round_id=None, match_day=None
StatsArgs == Cross(Opt("season_id"), Cross(Opt("round_id"), Opt("match_day")))

CompetitionMethods ==
    {"competition", "competition_matches", "competition_players", "competition_teams"}
PlayerMethods ==
    {"player_career", "player_transfer", "player_matches", "player_fixtures"}
SeasonMethods ==
    {"season", "season_matches", "season_fixtures", "season_players",
     "season_teams", "season_standings"}
TeamMethods == {"team_matches", "team_fixtures"}
AdvancedStatsMethods == {"player_advancedstats", "team_advancedstats"}

\* The methods of APIClient
Methods ==
    {"areas", "coach", "competitions", "competition_seasons", "match", "player",
     "referee", "round", "search", "season_career", "team", "team_squad",
     "team_career", "match_events", "player_injuries", "updated_objects"}
    \cup CompetitionMethods \cup PlayerMethods \cup SeasonMethods \cup TeamMethods
    \cup AdvancedStatsMethods

\* The signature of each method: the arguments it accepts, in order, with
\* the values a caller may give them
ArgSpace(m) ==
    CASE m = "areas" -> DetailsFetch
      [] m = "coach" -> Cross(Req("coach_id"), DetailsFetch)
      [] m = "competitions" -> Cross(Req("area_id"), DetailsFetch)
      [] m \in CompetitionMethods -> Cross(Req("competition_id"), DetailsFetch)
      [] m = "competition_seasons" ->
            Cross(Req("competition_id"), Cross(Flag("active"), DetailsFetch))
      [] m = "match" -> Cross(Req("match_id"), Cross(Flag("use_sides"), DetailsFetch))
      [] m = "match_events" -> Cross(Req("match_id"), DetailsFetch)
      [] m = "player" ->
            Cross(Req("player_id"), Cross(Flag("image_data_url"), DetailsFetch))
      [] m \in PlayerMethods -> Cross(Req("player_id"), DetailsFetch)
      [] m = "player_injuries" -> Req("player_id")
      [] m = "referee" -> Cross(Req("referee_id"), DetailsFetch)
      [] m = "round" -> Cross(Req("round_id"), DetailsFetch)
      [] m = "search" -> Cross(Req("query"), Cross(Req("object_type"), DetailsFetch))
      [] m \in SeasonMethods -> Cross(Req("season_id"), DetailsFetch)
      [] m = "season_career" ->
            Cross(Req("season_id"), Cross(Opt("filters"), DetailsFetch))
      [] m = "team" -> Cross(Req("team_id"), Cross(Flag("image_data_url"), DetailsFetch))
      [] m \in TeamMethods -> Cross(Req("team_id"), DetailsFetch)
      [] m \in {"team_squad", "team_career"} ->
            Cross(Req("team_id"), Cross(Opt("season_id"), DetailsFetch))
      [] m = "player_advancedstats" ->
            Cross(Req("player_id"), Cross(Req("competition_id"), StatsArgs))
      [] m = "team_advancedstats" ->
            Cross(Req("team_id"), Cross(Req("competition_id"), StatsArgs))
      [] m = "updated_objects" -> Cross(Req("timestamp"), Bind("object_type", ObjectTypes))

\* The value bound to argument n
Arg(a, n) == Item(a, n)

\* details=details, fetch=fetch
DF(a) == << <<"details", Arg(a, "details")>>, <<"fetch", Arg(a, "fetch")>> >>

\* The last route segment of the methods that name a sub-resource
Sub(m) ==
    CASE m \in {"competition_seasons"} -> "seasons"
      [] m \in {"competition_matches", "player_matches", "season_matches", "team_matches"}
            -> "matches"
      [] m \in {"competition_players", "season_players"} -> "players"
      [] m \in {"competition_teams", "season_teams"} -> "teams"
      [] m \in {"player_career", "season_career", "team_career"} -> "career"
      [] m = "player_transfer" -> "transfer"
      [] m \in {"player_fixtures", "season_fixtures", "team_fixtures"} -> "fixtures"
      [] m = "season_standings" -> "standings"
      [] m = "team_squad" -> "squad"
      [] m \in AdvancedStatsMethods -> "advancedstats"
      [] m = "match_events" -> "events"
      [] m = "player_injuries" -> "injuries"

\* compId=competition_id, seasonId=season_id, roundId=round_id, matchDay=match_day
StatsParams(a) ==
    << <<"compId", Arg(a, "competition_id")>>, <<"seasonId", Arg(a, "season_id")>>,
       <<"roundId", Arg(a, "round_id")>>, <<"matchDay", Arg(a, "match_day")>> >>

\* The call each APIClient method makes to Loader.get_route_json
ClientCall(m, a) ==
    CASE m = "areas" -> LoaderCall(<<S("areas")>>, DF(a))
      [] m = "coach" -> LoaderCall(<<S("coaches"), Arg(a, "coach_id")>>, DF(a))
      [] m = "competitions" ->
            LoaderCall(<<S("competitions")>>, << <<"areaId", Arg(a, "area_id")>> >> \o DF(a))
      [] m = "competition" ->
            LoaderCall(<<S("competitions"), Arg(a, "competition_id")>>, DF(a))
      [] m = "competition_seasons" ->
            LoaderCall(<<S("competitions"), Arg(a, "competition_id"), S(Sub(m))>>,
                       << <<"active", Arg(a, "active")>> >> \o DF(a))
      [] m \in CompetitionMethods \ {"competition"} ->
            LoaderCall(<<S("competitions"), Arg(a, "competition_id"), S(Sub(m))>>, DF(a))
      [] m = "match" ->
            LoaderCall(<<S("matches"), Arg(a, "match_id")>>,
                       << <<"useSides", Arg(a, "use_sides")>> >> \o DF(a))
      [] m = "match_events" ->
            LoaderCall(<<S("matches"), Arg(a, "match_id"), S(Sub(m))>>, DF(a))
      [] m = "player" ->
            LoaderCall(<<S("players"), Arg(a, "player_id")>>,
                       << <<"imageDataURL", Arg(a, "image_data_url")>> >> \o DF(a))
      [] m \in PlayerMethods ->
            LoaderCall(<<S("players"), Arg(a, "player_id"), S(Sub(m))>>, DF(a))
      [] m = "player_injuries" ->
            LoaderCall(<<S("players"), Arg(a, "player_id"), S(Sub(m))>>, <<>>)
      [] m = "referee" -> LoaderCall(<<S("referees"), Arg(a, "referee_id")>>, DF(a))
      [] m = "round" -> LoaderCall(<<S("rounds"), Arg(a, "round_id")>>, DF(a))
      [] m = "search" ->
            LoaderCall(<<S("search")>>,
                       << <<"query", Arg(a, "query")>>,
                          <<"objType", Arg(a, "object_type")>> >> \o DF(a))
      [] m = "season" -> LoaderCall(<<S("seasons"), Arg(a, "season_id")>>, DF(a))
      [] m = "season_career" ->
            LoaderCall(<<S("seasons"), Arg(a, "season_id"), S(Sub(m))>>,
                       << <<"filters", IF Truthy(Arg(a, "filters"))
                                       THEN Arg(a, "filters") ELSE EmptyDict>> >>
                       \o DF(a))
      [] m \in SeasonMethods \ {"season"} ->
            LoaderCall(<<S("seasons"), Arg(a, "season_id"), S(Sub(m))>>, DF(a))
      [] m = "team" ->
            LoaderCall(<<S("teams"), Arg(a, "team_id")>>,
                       << <<"imageDataURL", Arg(a, "image_data_url")>> >> \o DF(a))
      [] m \in TeamMethods ->
            LoaderCall(<<S("teams"), Arg(a, "team_id"), S(Sub(m))>>, DF(a))
      [] m = "team_squad" ->
            LoaderCall(<<S("teams"), Arg(a, "team_id"), S(Sub(m))>>,
                       << <<"seasonId", Arg(a, "season_id")>> >> \o DF(a))
      [] m = "team_career" ->
            LoaderCall(<<S("teams"), Arg(a, "team_id"), S(Sub(m))>>, DF(a))
      [] m = "player_advancedstats" ->
            LoaderCall(<<S("players"), Arg(a, "player_id"), S(Sub(m))>>, StatsParams(a))
      [] m = "team_advancedstats" ->
            LoaderCall(<<S("teams"), Arg(a, "team_id"), S(Sub(m))>>, StatsParams(a))
      [] m = "updated_objects" ->
            LoaderCall(<<S("updatedobjects")>>,
                       << <<"updated_since", Arg(a, "timestamp")>>,
                          <<"type", Arg(a, "object_type")>> >>)

\* content[key] on the value a Loader call returned; a Loader exception
\* propagates
Subscript(out, key) ==
    IF out.kind # "return" THEN out
    ELSE IF out.val.t # "dict" THEN Raise("TypeError", None)
    ELSE IF key.v \notin Keys(out.val.v) THEN Raise("KeyError", key)
    ELSE Return(Item(out.val.v, key.v))

\* A plausible slip: the whole mapping returned
PostProcessWhole(m, a, out) == out

\* What the method does with the Loader's result: updated_objects indexes
\* it by object_type, every other method returns it
PostProcess(m, a, out) ==
    IF m = "updated_objects" THEN Subscript(out, Arg(a, "object_type")) ELSE out

----------------------------------------------------------------------------
(* Inputs *)

MaxRouteLen == 3

Versions == {"v2", "v3"}

\* Route segments and routes of a direct call of get_route_json
Segments == {S("teams"), I(123), S("squad")}
Routes == UNION {[1..n -> Segments] : n \in 0..MaxRouteLen}

\* Keyword arguments of a direct call of get_route_json
ParamValues == {None, S("full"), B(TRUE), B(FALSE)}
ParamMaps ==
    {<<>>}
    \cup {<< <<"details", x>> >> : x \in ParamValues}
    \cup {<< <<"active", x>> >> : x \in ParamValues}
    \cup {<< <<"details", x>>, <<"active", y>> >> : x \in ParamValues, y \in ParamValues}

\* Values of the `error` field of a response
ErrorCodes == {I(401), I(400), I(429), I(999), S("401"), None}
ErrorMessages == {S("m"), S("bad creds")}
ErrorRecords ==
    {D(<< <<"code", c>>, <<"message", msg>> >>) : c \in ErrorCodes, msg \in ErrorMessages}
ErrorValues ==
    {None, S(""), S("oops"), I(0), I(5), B(FALSE), B(TRUE), L(<<>>), L(<<S("x")>>),
     EmptyDict, D(<< <<"code", I(401)>> >>), D(<< <<"message", S("m")>> >>)}
    \cup ErrorRecords

\* Values of an `error` field that comes beside a payload
PayloadErrorValues ==
    {None, S(""), S("oops"), I(5), EmptyDict,
     D(<< <<"code", I(429)>>, <<"message", S("m")>> >>)}

PlayersPayload == L(<<D(<< <<"wyId", I(44)>> >>)>>)
TeamsPayload == L(<<>>)

\* Decoded response bodies
Bodies ==
    {L(<<I(1), I(2), I(3)>>), L(<<>>), L(<<D(<< <<"error", S("oops")>> >>)>>),
     None, S("text"), I(3),
     EmptyDict, D(<< <<"players", PlayersPayload>> >>),
     D(<< <<"players", PlayersPayload>>, <<"teams", TeamsPayload>> >>)}
    \cup {D(<< <<"error", e>> >>) : e \in ErrorValues}
    \cup {D(<< <<"error", e>>, <<"players", PlayersPayload>> >>) : e \in PayloadErrorValues}

Responses == {Response(TRUE, b) : b \in Bodies} \cup {Response(FALSE, None)}

----------------------------------------------------------------------------
(* The state machine *)

\* WyscoutAPILoader.__init__ and APIClient.__init__
Init ==
    /\ version \in Versions
    /\ pc = "idle"
    /\ call = NoCall
    /\ lreq = NoRequest
    /\ kwargs = <<>>
    /\ sent = NoSent
    /\ resp = NoResponse
    /\ outcome = Pending
    /\ result = Pending
    /\ gets = 0

\* get_route_json up to the `with self.rate_limiter` line: the loop over
\* params has run and the call waits for the limiter
Begin(m, a, req) ==
    /\ pc = "idle"
    /\ call' = ClientMethodCall(m, a)
    /\ lreq' = req
    /\ kwargs' = PrepareParams(req.params)
    /\ pc' = "waiting"
    /\ UNCHANGED <<version, sent, resp, outcome, result, gets>>

\* A method of APIClient is called
InvokeClient == \E m \in Methods : \E a \in ArgSpace(m) : Begin(m, a, ClientCall(m, a))

\* get_route_json is called directly
InvokeLoader ==
    \E route \in Routes : \E params \in ParamMaps :
        Begin("get_route_json", <<>>, LoaderCall(route, params))

\* rate_limiter.__enter__ returns: the limiter admits the call
Enter ==
    /\ pc = "waiting"
    /\ pc' = "admitted"
    /\ UNCHANGED <<version, call, lreq, kwargs, sent, resp, outcome, result, gets>>

\* requests.get(self._url(*route), headers=self.headers, params=params)
\* answers, and the with block is left
Get ==
    /\ pc = "admitted"
    /\ \E r \in Responses : resp' = r
    /\ sent' = HttpGet(_url(version, lreq.route), TRUE, kwargs)
    /\ gets' = gets + 1
    /\ pc' = "received"
    /\ UNCHANGED <<version, call, lreq, kwargs, outcome, result>>

\* requests.get raises: the transport error leaves the with block,
\* get_route_json and the calling method as it is
GetFails ==
    /\ pc = "admitted"
    /\ sent' = HttpGet(_url(version, lreq.route), TRUE, kwargs)
    /\ gets' = gets + 1
    /\ outcome' = Raise("RequestException", None)
    /\ result' = PostProcess(call.method, call.args, outcome')
    /\ pc' = "done"
    /\ UNCHANGED <<version, call, lreq, kwargs, resp>>

\* return self._parse_response(r), and what the calling method makes of it
Parse ==
    /\ pc = "received"
    /\ outcome' = _parse_response(resp)
    /\ result' = PostProcess(call.method, call.args, outcome')
    /\ pc' = "done"
    /\ UNCHANGED <<version, call, lreq, kwargs, sent, resp, gets>>

\* The caller has its answer; the client is ready for the next call
Finish ==
    /\ pc = "done"
    /\ pc' = "idle"
    /\ call' = NoCall
    /\ lreq' = NoRequest
    /\ kwargs' = <<>>
    /\ sent' = NoSent
    /\ resp' = NoResponse
    /\ outcome' = Pending
    /\ result' = Pending
    /\ gets' = 0
    /\ UNCHANGED version

Next == InvokeClient \/ InvokeLoader \/ Enter \/ Get \/ GetFails \/ Parse \/ Finish

Spec == Init /\ [][Next]_vars

----------------------------------------------------------------------------
(* Properties *)

\* The body of a response that decoded as JSON and has been classified
Classified == pc = "done" /\ resp.json

\* The exception the error codes call for
ExpectedError(code) ==
    IF code = I(401) THEN "AuthenticationError"
    ELSE IF code = I(400) THEN "BadRequestError"
    ELSE IF code = I(429) THEN "TooManyRequestsError"
    ELSE "UnknownError"

\* C1: when the decoded body is a mapping with a truthy `error`, a string
\* error raises UnknownError carrying the string, and an error record (a
\* mapping with `code` and `message`) raises AuthenticationError for 401,
\* BadRequestError for 400, TooManyRequestsError for 429 and UnknownError
\* for every other code, each carrying error['message'], whatever else the
\* body, the route and the params hold.
C1_ErrorClassified ==
    (/\ Classified
     /\ resp.body.t = "dict"
     /\ "error" \in Keys(resp.body.v)
     /\ Truthy(Item(resp.body.v, "error")))
    => LET error == Item(resp.body.v, "error")
       IN  /\ error.t = "str" => outcome = Raise("UnknownError", error)
           /\ (error.t = "dict" /\ {"code", "message"} \subseteq Keys(error.v))
                => outcome = Raise(ExpectedError(Item(error.v, "code")),
                                   Item(error.v, "message"))

C1_Witness ==
    /\ Classified
    /\ resp.body =
          D(<< <<"error", D(<< <<"code", I(401)>>, <<"message", S("bad creds")>> >>)>> >>)
    /\ outcome = Raise("AuthenticationError", S("bad creds"))

\* C2: when the decoded body is a sequence, or a mapping with no `error`
\* key or a falsy `error` value, get_route_json returns exactly that body
\* and raises nothing, for every route and parameter mapping; the elements
\* of a sequence are not inspected.
C2_CleanBodyReturned ==
    (/\ Classified
     /\ \/ resp.body.t = "list"
        \/ /\ resp.body.t = "dict"
           /\ \/ "error" \notin Keys(resp.body.v)
              \/ ~Truthy(Item(resp.body.v, "error")))
    => outcome = Return(resp.body)

C2_Witness ==
    /\ Classified
    /\ resp.body = D(<< <<"error", S("")>> >>)
    /\ outcome = Return(resp.body)

\* C3: once the body has decoded as a mapping or a sequence, get_route_json
\* either returns the decoded payload or raises one of AuthenticationError,
\* BadRequestError, TooManyRequestsError, UnknownError.
C3_PayloadOrClassifiedError ==
    (Classified /\ resp.body.t \in {"dict", "list"})
    => \/ outcome = Return(resp.body)
       \/ outcome.kind = "raise" /\ outcome.exc \in WyscoutAPIError

\* C4: every boolean entry of the parameter mapping is sent as the string
\* "true" or "false", and every other entry with its value unchanged.
C4_BooleansSentAsLiterals ==
    sent.issued
    => /\ Len(sent.params) = Len(lreq.params)
       /\ \A i \in DOMAIN lreq.params :
             sent.params[i] =
                <<lreq.params[i][1],
                  IF lreq.params[i][2].t = "bool"
                  THEN S(IF lreq.params[i][2].v THEN "true" ELSE "false")
                  ELSE lreq.params[i][2]>>

\* The names of the entries of a parameter mapping whose value is present
Present(params) == {params[i][1] : i \in {j \in DOMAIN params : params[j][2] # None}}

\* C5 as stated: get_route_json has dropped the None-valued entries before
\* the limiter is acquired, so that the request is made with the present
\* entries only.
C5_NoneDroppedByLoader ==
    /\ pc \in {"waiting", "admitted"} => Keys(kwargs) = Present(lreq.params)
    /\ sent.issued => Keys(sent.params) = Present(lreq.params)

\* C5 as amended: get_route_json drops nothing. Every entry of the parameter
\* mapping, the None-valued ones included and still None, is in the params
\* handed to requests.get; leaving them out of the query string is left to
\* the HTTP library.
C5_ParamsHandedOverWhole ==
    /\ pc \in {"waiting", "admitted"} => Keys(kwargs) = Keys(lreq.params)
    /\ sent.issued =>
          /\ Keys(sent.params) = Keys(lreq.params)
          /\ \A k \in Keys(lreq.params) :
                Item(lreq.params, k) = None => Item(sent.params, k) = None

C5_Witness ==
    /\ sent.issued
    /\ \E k \in Keys(lreq.params) :
          Item(lreq.params, k) = None /\ Item(sent.params, k) = None
    /\ \E k \in Keys(lreq.params) : Item(lreq.params, k) # None

\* C8: updated_objects(timestamp, object_type) makes one Loader call with
\* route ['updatedobjects'] and params updated_since=timestamp,
\* type=object_type, and what it returns is the value under key object_type
\* of the decoded mapping, not the mapping.
C8_UpdatedObjectsIndexed ==
    (pc # "idle" /\ call.method = "updated_objects")
    => LET key == Item(call.args, "object_type")
       IN  /\ lreq.route = <<S("updatedobjects")>>
           /\ lreq.params = << <<"updated_since", Item(call.args, "timestamp")>>,
                               <<"type", key>> >>
           /\ pc = "done" =>
                /\ gets = 1
                /\ (outcome.kind = "return" /\ outcome.val.t = "dict"
                    /\ key.v \in Keys(outcome.val.v))
                      => result = Return(Item(resp.body.v, key.v))
                /\ result.kind = "return"
                      => /\ outcome = Return(resp.body)
                         /\ resp.body.t = "dict"
                         /\ key.v \in Keys(resp.body.v)
                         /\ result.val = Item(resp.body.v, key.v)

C8_Witness ==
    /\ pc = "done"
    /\ call.method = "updated_objects"
    /\ Item(call.args, "object_type") = S("players")
    /\ resp.body = D(<< <<"players", PlayersPayload>>, <<"teams", TeamsPayload>> >>)
    /\ result = Return(PlayersPayload)

RECURSIVE SegmentsAppended(_, _)
\* `path` followed by "/" and the string of each segment, in order
SegmentsAppended(path, route) ==
    IF route = <<>> THEN path
    ELSE SegmentsAppended(path \o "/" \o Str(Head(route)), Tail(route))

\* The URL of a route: host, version and the route's segments, each as a
\* string, with "/" between; an empty route leaves the "/" after the version
ExpectedUrl(ver, route) ==
    IF route = <<>> THEN "https://apirest.wyscout.com/" \o ver \o "/"
    ELSE SegmentsAppended("https://apirest.wyscout.com/" \o ver, route)

\* C9: the URL requested is the base host, the version and the route
\* segments, each converted to string, joined by "/" in the caller's order,
\* whatever the query parameters; version v3 and segments teams, 123, squad
\* give https://apirest.wyscout.com/v3/teams/123/squad.
C9_UrlFromRoute ==
    sent.issued
    => /\ sent.url = ExpectedUrl(version, lreq.route)
       /\ (version = "v3" /\ lreq.route = <<S("teams"), I(123), S("squad")>>)
             => sent.url = "https://apirest.wyscout.com/v3/teams/123/squad"

C9_Witness ==
    /\ sent.issued
    /\ lreq.route = <<S("teams"), I(123), S("squad")>>
    /\ sent.url = "https://apirest.wyscout.com/v3/teams/123/squad"
    /\ \E i \in DOMAIN sent.params : sent.params[i][2] = S("full")

\* The value is a segment of the route or the value of a query parameter
Delegated(x, req) ==
    \/ \E i \in DOMAIN req.route : req.route[i] = x
    \/ \E i \in DOMAIN req.params : req.params[i][2] = x

\* C10: every APIClient method makes exactly one Loader call, and every
\* argument the caller supplies reaches it unchanged, as a route segment or
\* as a query parameter: none is dropped or altered.
C10_ArgumentsDelegated ==
    (pc # "idle" /\ call.method \in Methods)
    => /\ \A i \in DOMAIN call.args :
             call.args[i][2] # None => Delegated(call.args[i][2], lreq)
       /\ pc = "done" => gets = 1

====
